---- MODULE Spec2Model ----
(***************************************************************************)
(* The currency converter of src/src/main.rs: one invocation of `main` is  *)
(* a short pipeline (arguments, cache freshness decision, refresh_rates,   *)
(* read, parse, lookup, print) over one cache file and a wall clock.       *)
(* Invocations are processes; Spec runs them one after another, SpecConc   *)
(* lets two of them interleave at their file and network operations.       *)
(***************************************************************************)
EXTENDS Integers, Sequences, FiniteSets, TLC

VARIABLES
    now,      \* SystemTime::now(), in seconds
    ticks,    \* how many times the clock has advanced
    file,     \* the cache file $HOME/.cache/currency.db
    env,      \* what the file system lets this user do with the cache path
    proc,     \* the invocations: position and locals of `main`
    runs,     \* invocations started so far
    ref       \* an earlier, finished invocation (history)

vars == <<now, ticks, file, env, proc, runs, ref>>

----------------------------------------------------------------------------
(* Bounds and program constants *)

\* age < Duration::from_secs(3600)
TTL == 3600

\* The clock advances at most this many times.
MaxTicks == 2

\* At most this many invocations are started in a behaviour of Spec.
MaxRuns == 2

\* The clock advances by one second or by one second less than the window,
\* so that ages just under, exactly at and beyond TTL all occur.
TickSteps == {1, TTL - 1}

InitNow == TTL

Procs == {1, 2}

----------------------------------------------------------------------------
(* f64 arithmetic: finite values are exact rationals n/d, with the IEEE     *)
(* infinities and NaN that a division by a zero rate produces.             *)

Abs(x) == IF x < 0 THEN -x ELSE x

Sgn(x) == IF x < 0 THEN -1 ELSE IF x > 0 THEN 1 ELSE 0

RECURSIVE GCD(_, _)
GCD(a, b) == IF b = 0 THEN a ELSE GCD(b, a % b)

Fin(n, d) ==
    LET g == GCD(Abs(n), Abs(d))
        s == IF d < 0 THEN -1 ELSE 1
    IN  [k |-> "fin", n |-> (s * n) \div g, d |-> (s * d) \div g]

Inf(s) == [k |-> "inf", n |-> s, d |-> 1]

NaN == [k |-> "nan", n |-> 0, d |-> 1]

Zero == Fin(0, 1)

\* a / b on f64
FDiv(a, b) ==
    IF a.k = "nan" \/ b.k = "nan" THEN NaN
    ELSE IF a.k = "inf" THEN
        IF b.k = "inf" THEN NaN
        ELSE Inf(IF b.n < 0 THEN -a.n ELSE a.n)
    ELSE IF b.k = "inf" THEN Zero
    ELSE IF b.n = 0 THEN (IF a.n = 0 THEN NaN ELSE Inf(Sgn(a.n)))
    ELSE Fin(a.n * b.d, a.d * b.n)

\* a * b on f64
FMul(a, b) ==
    IF a.k = "nan" \/ b.k = "nan" THEN NaN
    ELSE IF a.k = "inf" \/ b.k = "inf" THEN
        IF (a.k = "fin" /\ a.n = 0) \/ (b.k = "fin" /\ b.n = 0) THEN NaN
        ELSE Inf(Sgn(a.n) * Sgn(b.n))
    ELSE Fin(a.n * b.n, a.d * b.d)

\* n/d rounded to the nearest integer, ties to even (d > 0)
RoundHalfEven(n, d) ==
    LET q == n \div d
        r == n % d
    IN  IF 2 * r < d THEN q
        ELSE IF 2 * r > d THEN q + 1
        ELSE IF q % 2 = 0 THEN q ELSE q + 1

\* format!("{:.4}", x): the value in ten-thousandths, or inf / NaN
Fmt4(x) ==
    IF x.k = "fin" THEN [k |-> "num", v |-> RoundHalfEven(x.n * 10000, x.d)]
    ELSE IF x.k = "inf" THEN [k |-> "inf", v |-> x.n]
    ELSE [k |-> "NaN", v |-> 0]

----------------------------------------------------------------------------
(* Command line *)

\* str::to_uppercase on the codes used here
UpperTable ==
    [s \in {"usd", "eur", "xyz", "abc", "USD", "EUR", "XYZ", "ABC"} |->
        CASE s = "usd" -> "USD"
          [] s = "eur" -> "EUR"
          [] s = "xyz" -> "XYZ"
          [] s = "abc" -> "ABC"
          [] OTHER -> s]

to_uppercase(s) == UpperTable[s]

\* str::parse::<f64>() on the amounts used here; anything else is an Err
AmountTable == [s \in {"100", "2.5"} |-> IF s = "100" THEN Fin(100, 1) ELSE Fin(5, 2)]

\* args[3].parse().unwrap_or(0.0)
ParseAmount(s) == IF s \in DOMAIN AmountTable THEN AmountTable[s] ELSE Zero

\* The user arguments (args[1..]) an invocation may be given.
ArgVs ==
    { <<>>,
      <<"usd", "eur", "100", "x", "y">>,
      <<"usd", "eur", "100">>,
      <<"USD", "xyz", "100">>,
      <<"xyz", "abc", "2.5">>,
      <<"eur", "USD", "oops">> }

\* args.len() != 4 (args[0] is the program name)
ArityOkLax(argv) == Len(argv) + 1 >= 4

ArityOk(argv) == Len(argv) + 1 = 4

----------------------------------------------------------------------------
(* JSON text as a sequence of lexical tokens, and serde_json on it *)

Tok(t, s, n, d) == [t |-> t, s |-> s, n |-> n, d |-> d]

LB == Tok("{", "", 0, 1)
RB == Tok("}", "", 0, 1)
COMMA == Tok(",", "", 0, 1)
WS == Tok("ws", "", 0, 1)
NUL == Tok("nul", "", 0, 1)
Key(s) == Tok("key", s, 0, 1)
Str(s) == Tok("str", s, 0, 1)
Num(n, d) == Tok("num", "", n, d)

VNull == [ty |-> "null", n |-> 0, d |-> 1, m |-> <<>>]
VNum(n, d) == [ty |-> "num", n |-> n, d |-> d, m |-> <<>>]
VStr == [ty |-> "str", n |-> 0, d |-> 1, m |-> <<>>]
VObj(m) == [ty |-> "obj", n |-> 0, d |-> 1, m |-> m]

PErr == [ok |-> FALSE, v |-> VNull, i |-> 0]
POk(v, i) == [ok |-> TRUE, v |-> v, i |-> i]

\* m with key k bound to v (a repeated key keeps its last value)
Put(m, k, v) == [x \in DOMAIN m \cup {k} |-> IF x = k THEN v ELSE m[x]]

RECURSIVE ParseValue(_, _)
RECURSIVE ParseMembers(_, _, _)

\* a value starting at token i of s
ParseValue(s, i) ==
    IF i > Len(s) THEN PErr
    ELSE IF s[i].t = "num" THEN POk(VNum(s[i].n, s[i].d), i + 1)
    ELSE IF s[i].t = "str" THEN POk(VStr, i + 1)
    ELSE IF s[i].t = "{" THEN
        IF i + 1 <= Len(s) /\ s[i + 1].t = "}" THEN POk(VObj(<<>>), i + 2)
        ELSE ParseMembers(s, i + 1, <<>>)
    ELSE PErr

\* the members of an object from token i on, up to its closing brace
ParseMembers(s, i, acc) ==
    IF i > Len(s) \/ s[i].t # "key" THEN PErr
    ELSE LET r == ParseValue(s, i + 1) IN
        IF ~r.ok \/ r.i > Len(s) THEN PErr
        ELSE IF s[r.i].t = "," THEN ParseMembers(s, r.i + 1, Put(acc, s[i].s, r.v))
        ELSE IF s[r.i].t = "}" THEN POk(VObj(Put(acc, s[i].s, r.v)), r.i + 1)
        ELSE PErr

RECURSIVE SkipWs(_, _)
SkipWs(s, i) == IF i <= Len(s) /\ s[i].t = "ws" THEN SkipWs(s, i + 1) ELSE i

\* A lenient parser: whatever does not parse is Null.
from_str_lenient(s) ==
    LET r == ParseValue(s, SkipWs(s, 1))
    IN  IF r.ok /\ SkipWs(s, r.i) = Len(s) + 1 THEN POk(r.v, r.i) ELSE POk(VNull, 1)

\* serde_json::from_str: one value, whitespace around it, nothing after it
from_str(s) ==
    LET r == ParseValue(s, SkipWs(s, 1))
    IN  IF r.ok /\ SkipWs(s, r.i) = Len(s) + 1 THEN r ELSE PErr

\* v["rates"]: Null unless v is an object holding the key
Index(v, k) == IF v.ty = "obj" /\ k \in DOMAIN v.m THEN v.m[k] ELSE VNull

\* val.as_f64().unwrap_or(0.0)
AsF64(v) == IF v.ty = "num" THEN Fin(v.n, v.d) ELSE Zero

\* The documents of the model.
\* {"rates":{"USD":1.0,"EUR":0.9}}
DocA == <<LB, Key("rates"), LB, Key("USD"), Num(1, 1), COMMA, Key("EUR"), Num(9, 10), RB, RB>>
\* {"rates":{"USD":1.0,"EUR":0.5}} followed by a newline
DocB == <<LB, Key("rates"), LB, Key("USD"), Num(1, 1), COMMA, Key("EUR"), Num(1, 2), RB, RB, WS>>
\* {"base":"USD"}
DocNoRates == <<LB, Key("base"), Str("USD"), RB>>

\* What the remote service may answer with a success status.
Bodies == {DocB}

----------------------------------------------------------------------------
(* The cache file and the file system *)

NoFile == [exists |-> FALSE, content |-> <<>>, mtime |-> 0, readable |-> TRUE]

FileOf(c, m, r) == [exists |-> TRUE, content |-> c, mtime |-> m, readable |-> r]

\* The cache path before the first invocation: no file; a cache written
\* TTL, TTL - 1 seconds ago or stamped one second ahead of the clock; a
\* cache this user may not read or write; a cache directory this user may
\* not search; a cached document without rates.
InitWorlds ==
    { <<NoFile, TRUE>>,
      <<FileOf(DocA, InitNow - TTL, TRUE), TRUE>>,
      <<FileOf(DocA, InitNow - (TTL - 1), TRUE), TRUE>>,
      <<FileOf(DocA, InitNow + 1, TRUE), TRUE>>,
      <<FileOf(DocA, InitNow - (TTL - 1), FALSE), TRUE>>,
      <<FileOf(DocA, InitNow - (TTL - 1), TRUE), FALSE>>,
      <<FileOf(DocNoRates, InitNow - (TTL - 1), TRUE), TRUE>> }

\* fs::metadata(&file_path) is Ok
MetadataOk(f, e) == e.searchable /\ f.exists

\* The comparison the wrong way round: a cache at least an hour old is kept.
NeedRefreshInverted(metaOk, mtime, t) == ~(metaOk /\ t >= mtime /\ t - mtime >= TTL)

\* A cache exactly an hour old is kept.
NeedRefreshInclusive(metaOk, mtime, t) == ~(metaOk /\ t >= mtime /\ t - mtime <= TTL)

\* need_refresh: true unless the stat succeeds, now.duration_since(mtime)
\* is Ok (mtime not later than now) and the age is under an hour
NeedRefresh(metaOk, mtime, t) == ~(metaOk /\ t >= mtime /\ t - mtime < TTL)

\* OpenOptions::new().create(true).write(true).truncate(true).open(..) is Ok:
\* an empty file stamped now (a new file is readable by its creator)
Truncated(f, t) == [exists |-> TRUE, content |-> <<>>, mtime |-> t, readable |-> TRUE]

\* whether this user may open the cache file for writing
MayOpen(f, e) == e.searchable /\ (f.exists => f.readable)

\* the bytes of a file after a write of chunk at offset off
WriteAt(c, off, chunk) ==
    LET n == IF Len(c) > off + Len(chunk) THEN Len(c) ELSE off + Len(chunk)
    IN  [i \in 1..n |->
            IF i > off /\ i <= off + Len(chunk) THEN chunk[i - off]
            ELSE IF i <= Len(c) THEN c[i]
            ELSE NUL]

\* The offsets at which one write() of write_all may return: nothing yet,
\* half of the body, all but its last token, all of it.
WritePoints(b) == {0, Len(b) \div 2, Len(b) - 1, Len(b)}

\* fs::read_to_string(&file_path) is Ok
ReadOk(f, e) == e.searchable /\ f.exists /\ f.readable

----------------------------------------------------------------------------
(* One invocation of main *)

NoLine == [from |-> "", amount |-> Fmt4(Zero), to |-> "", converted |-> Fmt4(Zero)]

\* nothing printed yet; status -1 while the process runs
NoOut == [status |-> -1, printed |-> FALSE, line |-> NoLine, err |-> <<>>]

Msg(m, a) == [m |-> m, a |-> a]

\* eprintln!(..)
Eprint(out, m, a) == [out EXCEPT !.err = Append(@, Msg(m, a))]

\* the process ends with this status
ExitWith(out, st) == [out EXCEPT !.status = st]

IdleProc ==
    [pc |-> "idle", argv |-> <<>>, home |-> TRUE, from |-> "", to |-> "",
     amount |-> Zero, metaOk |-> FALSE, mtime |-> 0, t |-> 0,
     need_refresh |-> FALSE, fetched |-> FALSE, rerr |-> "", body |-> <<>>,
     off |-> 0, readTried |-> FALSE, readOk |-> FALSE, json |-> <<>>,
     pre |-> NoFile, out |-> NoOut]

\* (amount / rate_to) * rate_from: the two rates exchanged
ConvertSwapped(amount, rate_from, rate_to) == FMul(FDiv(amount, rate_to), rate_from)

\* let converted = (amount / rate_from) * rate_to;
Convert(amount, rate_from, rate_to) == FMul(FDiv(amount, rate_from), rate_to)

\* The destination looked up before the source.
LookupToFirst(out, rates, from, to, amount) ==
    IF to \notin DOMAIN rates.m
    THEN ExitWith(Eprint(out, "not_recognized", to), 1)
    ELSE IF from \notin DOMAIN rates.m
    THEN ExitWith(Eprint(out, "not_recognized", from), 1)
    ELSE ExitWith(
            [out EXCEPT !.printed = TRUE,
                        !.line = [from |-> from, amount |-> Fmt4(amount), to |-> to,
                                  converted |-> Fmt4(Convert(amount, AsF64(rates.m[from]),
                                                             AsF64(rates.m[to])))]], 0)

\* rates.get(&from), rates.get(&to), the conversion and the println!
Lookup(out, rates, from, to, amount) ==
    IF from \notin DOMAIN rates.m
    THEN ExitWith(Eprint(out, "not_recognized", from), 1)
    ELSE IF to \notin DOMAIN rates.m
    THEN ExitWith(Eprint(out, "not_recognized", to), 1)
    ELSE ExitWith(
            [out EXCEPT !.printed = TRUE,
                        !.line = [from |-> from, amount |-> Fmt4(amount), to |-> to,
                                  converted |-> Fmt4(Convert(amount, AsF64(rates.m[from]),
                                                             AsF64(rates.m[to])))]], 0)

\* A parse failure is not propagated: the text is taken for Null.
RatesOfLenient(out, json, from, to, amount) ==
    LET rates == Index(from_str_lenient(json).v, "rates")
    IN  IF rates.ty # "obj" THEN ExitWith(Eprint(out, "no_rates", ""), 1)
        ELSE Lookup(out, rates, from, to, amount)

\* serde_json::from_str(..).map_err(..)?, then the "rates" object; an Err
\* returned from main ends the process with status 1
RatesOf(out, json, from, to, amount) ==
    LET r == from_str(json)
        rates == Index(r.v, "rates")
    IN  IF ~r.ok THEN ExitWith(Eprint(out, "json_parse", ""), 1)
        ELSE IF rates.ty # "obj" THEN ExitWith(Eprint(out, "no_rates", ""), 1)
        ELSE Lookup(out, rates, from, to, amount)

\* The error of refresh_rates propagated out of main.
RefreshFailedFatal(pr, e) ==
    [pr EXCEPT !.pc = "done", !.rerr = e,
               !.out = ExitWith(Eprint(pr.out, "error", e), 1)]

\* Err(e) of refresh_rates in main: the warning, then on to the read
RefreshFailed(pr, e) ==
    [pr EXCEPT !.pc = "read", !.rerr = e, !.out = Eprint(pr.out, "warning", "")]

\* main up to the refresh: arity, the codes and the amount, $HOME, and
\* the freshness decision on the cache file's metadata
Start(p, invocations, limit) ==
    /\ proc[p].pc = "idle"
    /\ runs < limit
    /\ runs' = runs + 1
    /\ \E inv \in invocations :
        LET argv == inv[1]
            home == inv[2]
            pr0 == [IdleProc EXCEPT !.argv = argv, !.home = home, !.pre = file, !.t = now]
        IN  IF ~ArityOk(argv) THEN
                proc' = [proc EXCEPT ![p] =
                    [pr0 EXCEPT !.pc = "done",
                                !.out = ExitWith(Eprint(NoOut, "usage", ""), 0)]]
            ELSE IF ~home THEN
                proc' = [proc EXCEPT ![p] =
                    [pr0 EXCEPT !.pc = "done",
                                !.from = to_uppercase(argv[1]),
                                !.to = to_uppercase(argv[2]),
                                !.amount = ParseAmount(argv[3]),
                                !.out = ExitWith(Eprint(NoOut, "panic_home", ""), 101)]]
            ELSE
                LET ok == MetadataOk(file, env)
                    need == NeedRefresh(ok, file.mtime, now)
                IN  proc' = [proc EXCEPT ![p] =
                        [pr0 EXCEPT !.pc = IF need THEN "mkdir" ELSE "read",
                                    !.from = to_uppercase(argv[1]),
                                    !.to = to_uppercase(argv[2]),
                                    !.amount = ParseAmount(argv[3]),
                                    !.metaOk = ok,
                                    !.mtime = IF ok THEN file.mtime ELSE 0,
                                    !.need_refresh = need]]
    /\ UNCHANGED <<now, ticks, file, env, ref>>

\* refresh_rates: fs::create_dir_all(parent)?
Mkdir(p) ==
    /\ proc[p].pc = "mkdir"
    /\ \/ proc' = [proc EXCEPT ![p].pc = "get"]
       \/ proc' = [proc EXCEPT ![p] = RefreshFailed(proc[p], "create_dir")]
    /\ UNCHANGED <<now, ticks, file, env, runs, ref>>

\* refresh_rates: reqwest::get(url)?, the status check, response.bytes()?
Get(p) ==
    /\ proc[p].pc = "get"
    /\ \/ \E b \in Bodies :
            proc' = [proc EXCEPT ![p].pc = "open", ![p].fetched = TRUE, ![p].body = b]
       \/ \E e \in {"network", "http_status", "body"} :
            proc' = [proc EXCEPT ![p] =
                        RefreshFailed([proc[p] EXCEPT !.fetched = TRUE], e)]
    /\ UNCHANGED <<now, ticks, file, env, runs, ref>>

\* refresh_rates: the open with create, write and truncate
Open(p) ==
    /\ proc[p].pc = "open"
    /\ \/ /\ MayOpen(file, env)
          /\ file' = Truncated(file, now)
          /\ proc' = [proc EXCEPT ![p].pc = IF Len(proc[p].body) = 0 THEN "read" ELSE "write",
                                  ![p].rerr = IF Len(proc[p].body) = 0 THEN "none" ELSE "",
                                  ![p].off = 0]
       \/ /\ proc' = [proc EXCEPT ![p] = RefreshFailed(proc[p], "open")]
          /\ file' = file
    /\ UNCHANGED <<now, ticks, env, runs, ref>>

\* refresh_rates: one write() of file.write_all(&content), at the file
\* offset of this process; write_all returns Ok once the buffer is empty
Write(p) ==
    /\ proc[p].pc = "write"
    /\ \E to \in WritePoints(proc[p].body) :
        /\ to > proc[p].off
        /\ \A x \in WritePoints(proc[p].body) : ~(proc[p].off < x /\ x < to)
        /\ file' = [file EXCEPT
                !.content = WriteAt(@, proc[p].off, SubSeq(proc[p].body, proc[p].off + 1, to)),
                !.mtime = now]
        /\ proc' = [proc EXCEPT ![p].off = to,
                                ![p].pc = IF to = Len(proc[p].body) THEN "read" ELSE "write",
                                ![p].rerr = IF to = Len(proc[p].body) THEN "none" ELSE ""]
    /\ UNCHANGED <<now, ticks, env, runs, ref>>

\* refresh_rates: a write() of file.write_all(&content) fails
WriteFail(p) ==
    /\ proc[p].pc = "write"
    /\ proc' = [proc EXCEPT ![p] = RefreshFailed(proc[p], "write")]
    /\ UNCHANGED <<now, ticks, file, env, runs, ref>>

\* The read error ends the process with exit(0).
ReadFailedExitZero(pr) ==
    [pr EXCEPT !.pc = "done", !.readTried = TRUE,
               !.out = ExitWith(Eprint(pr.out, "unable_to_read", ""), 0)]

\* Err(_) of fs::read_to_string: the error message and exit(1)
ReadFailed(pr) ==
    [pr EXCEPT !.pc = "done", !.readTried = TRUE,
               !.out = ExitWith(Eprint(pr.out, "unable_to_read", ""), 1)]

\* main from the read of the cache file to the end
ReadConvert(p) ==
    /\ proc[p].pc = "read"
    /\ LET pr == proc[p] IN
        IF ~ReadOk(file, env) THEN
            proc' = [proc EXCEPT ![p] = ReadFailed(pr)]
        ELSE
            proc' = [proc EXCEPT ![p] =
                [pr EXCEPT !.pc = "done", !.readTried = TRUE, !.readOk = TRUE,
                           !.json = file.content,
                           !.out = RatesOf(pr.out, file.content, pr.from, pr.to, pr.amount)]]
    /\ UNCHANGED <<now, ticks, file, env, runs, ref>>

\* how the refresh step of a finished invocation went
RefreshClass(pr) ==
    IF ~pr.need_refresh THEN "skipped"
    ELSE IF pr.rerr = "none" THEN "ok"
    ELSE IF pr.rerr = "write" THEN "write_failed"
    ELSE "failed"

NoRef == [valid |-> FALSE, argv |-> <<>>, t |-> 0, refresh |-> "",
          out |-> NoOut, file |-> NoFile]

\* what a finished invocation leaves for later ones to be compared with
Snapshot(pr, f) ==
    [valid |-> TRUE, argv |-> pr.argv, t |-> pr.t, refresh |-> RefreshClass(pr),
     out |-> pr.out, file |-> f]

\* The process is gone. An invocation that had three arguments and $HOME
\* may be remembered as the earlier one of a pair.
Exit(p) ==
    /\ proc[p].pc = "done"
    /\ proc' = [proc EXCEPT ![p] = IdleProc]
    /\ \/ ref' = ref
       \/ /\ ArityOk(proc[p].argv) /\ proc[p].home
          /\ ref' = Snapshot(proc[p], file)
    /\ UNCHANGED <<now, ticks, file, env, runs>>

\* Time passes between invocations and while one waits for the network.
Tick ==
    /\ ticks < MaxTicks
    /\ \A p \in Procs : proc[p].pc \in {"idle", "get"}
    /\ \E d \in TickSteps : now' = now + d
    /\ ticks' = ticks + 1
    /\ UNCHANGED <<file, env, proc, runs, ref>>

\* An invocation is given its arguments and has $HOME set or not.
Invocations == ArgVs \X BOOLEAN

\* The invocations that run at once: a conversion, with $HOME set.
ConcInvocations == {<<(<<"usd", "eur", "100">>), TRUE>>}

\* Before two invocations run at once, the cache holds a valid document
\* written TTL or TTL - 1 seconds ago.
ConcWorlds ==
    { <<FileOf(DocA, InitNow - TTL, TRUE), TRUE>>,
      <<FileOf(DocA, InitNow - (TTL - 1), TRUE), TRUE>> }

InitIn(worlds) ==
    /\ now = InitNow
    /\ ticks = 0
    /\ \E w \in worlds : file = w[1] /\ env = [searchable |-> w[2]]
    /\ proc = [p \in Procs |-> IdleProc]
    /\ runs = 0
    /\ ref = NoRef

Init == InitIn(InitWorlds)

\* Invocations one after another.
Next ==
    \/ Tick
    \/ Start(1, Invocations, MaxRuns)
    \/ Mkdir(1)
    \/ Get(1)
    \/ Open(1)
    \/ Write(1)
    \/ WriteFail(1)
    \/ ReadConvert(1)
    \/ Exit(1)

Spec == Init /\ [][Next]_vars

\* Two invocations at once: nothing orders their steps on the cache file.
NextConc ==
    \/ Tick
    \/ \E p \in Procs :
        \/ Start(p, ConcInvocations, Cardinality(Procs))
        \/ Mkdir(p)
        \/ Get(p)
        \/ Open(p)
        \/ Write(p)
        \/ WriteFail(p)
        \/ ReadConvert(p)
        \/ Exit(p)

InitConc == InitIn(ConcWorlds)

SpecConc == InitConc /\ [][NextConc]_vars

----------------------------------------------------------------------------
(* What the claims speak of *)

\* the invocation got three arguments and $HOME, so it reached the
\* freshness decision
Decided(pr) == pr.pc # "idle" /\ Len(pr.argv) = 3 /\ pr.home

\* refresh_rates was called
Attempted(pr) == pr.pc \in {"mkdir", "get", "open", "write"} \/ pr.rerr # ""

\* refresh_rates returned an Err
RefreshErr(pr) == pr.rerr \notin {"", "none"}

\* the age of the cache file the invocation found
AgeFound(pr) == pr.t - pr.pre.mtime

\* the invocation found a cache file that it could stat
Statable(pr) == pr.pre.exists /\ env.searchable

Warned(pr) == \E i \in DOMAIN pr.out.err : pr.out.err[i].m = "warning"

LastErr(pr) == pr.out.err[Len(pr.out.err)]

\* the process ended with a failure status and printed no result line
Aborted(pr) == pr.pc = "done" /\ pr.out.status # 0 /\ ~pr.out.printed

\* c is the first Len(c) tokens of b, and not all of b
ProperPrefix(c, b) == Len(c) < Len(b) /\ c = SubSeq(b, 1, Len(c))

Count(c, t) == Cardinality({i \in DOMAIN c : c[i].t = t})

\* every object opened in c is closed in c: the text of a document, cut
\* anywhere before its last closing brace, is not balanced
Balanced(c) == Count(c, "{") > 0 /\ Count(c, "{") = Count(c, "}")

\* C1: with three arguments, refresh_rates is attempted whenever the cache
\* file is absent, cannot be stat'ed or is 3600 seconds old or older, and is
\* not attempted when the file is there with an age of 0 to 3599 seconds.
C1_RefreshDecision ==
    \A p \in Procs : LET pr == proc[p] IN
        Decided(pr) =>
            /\ (~pr.pre.exists \/ ~env.searchable \/ AgeFound(pr) >= TTL) => Attempted(pr)
            /\ (Statable(pr) /\ 0 <= AgeFound(pr) /\ AgeFound(pr) < TTL) => ~Attempted(pr)

\* an invocation found a cache exactly 3600 seconds old and is refreshing
C1_Witness ==
    \E p \in Procs : LET pr == proc[p] IN
        Decided(pr) /\ Statable(pr) /\ AgeFound(pr) = TTL /\ pr.pc = "get"

\* C2 as claimed: whichever way refresh_rates fails, main warns and goes
\* on, and what it then reads is what the file held before the invocation.
C2_PreviousContentsKept ==
    \A p \in Procs : LET pr == proc[p] IN
        (pr.pc = "done" /\ RefreshErr(pr)) =>
            /\ Warned(pr) /\ pr.readTried
            /\ pr.readOk => (pr.pre.exists /\ pr.json = pr.pre.content)

\* C2 amended: a failure before the file is truncated (directory, network,
\* status, body, open) leaves the file as it was and main reads the
\* previous contents; a failure of the write leaves the part of the new
\* body written so far, and main reads that. In both cases main warns and
\* goes on to the read.
C2_FallbackAfterFailure ==
    \A p \in Procs : LET pr == proc[p] IN
        RefreshErr(pr) =>
            /\ Warned(pr)
            /\ pr.pc = "read" \/ (pr.pc = "done" /\ pr.readTried)
            /\ pr.rerr # "write" =>
                /\ file = pr.pre
                /\ pr.readOk => pr.json = pr.pre.content
            /\ pr.rerr = "write" =>
                /\ file.exists /\ ProperPrefix(file.content, pr.body)
                /\ pr.readOk => pr.json = file.content

\* the network failed, and the stale cache gave the result
C2_Witness ==
    \E p \in Procs : LET pr == proc[p] IN
        /\ pr.pc = "done" /\ pr.rerr = "network" /\ pr.pre.exists
        /\ pr.readOk /\ pr.out.printed /\ pr.json = DocA

\* the result line and the exit status
Result(out) == <<out.status, out.printed, out.line>>

\* C3 as claimed: a second invocation with the same arguments, started
\* less than 3600 seconds after the first, fetches nothing and gives the
\* same result, however the first one's refresh went.
C3_SecondRunAnyOutcome ==
    \A p \in Procs : LET pr == proc[p] IN
        (ref.valid /\ Decided(pr) /\ pr.argv = ref.argv /\ pr.t - ref.t < TTL) =>
            /\ ~pr.fetched
            /\ pr.pc = "done" => Result(pr.out) = Result(ref.out)

\* C3 amended: when the first invocation's refresh succeeded, a second one
\* with the same arguments started less than 3600 seconds after it attempts
\* no refresh, fetches nothing and prints what the first one printed.
C3_SecondRunAfterRefresh ==
    \A p \in Procs : LET pr == proc[p] IN
        (ref.valid /\ ref.refresh = "ok" /\ Decided(pr) /\ pr.argv = ref.argv
            /\ pr.t - ref.t < TTL) =>
            /\ ~Attempted(pr) /\ ~pr.fetched
            /\ pr.pc = "done" => pr.out = ref.out

\* a second conversion, later than the first but within the hour, printed
\* the first one's line without a fetch
C3_Witness ==
    \E p \in Procs : LET pr == proc[p] IN
        /\ ref.valid /\ ref.refresh = "ok" /\ pr.argv = ref.argv
        /\ pr.pc = "done" /\ pr.t - ref.t = TTL - 1
        /\ pr.out.printed /\ pr.out = ref.out /\ ~pr.fetched

\* C4: with any number of arguments other than three the program prints
\* the usage text and ends with status 0 before anything else: no refresh,
\* no fetch, no read or write of the cache, no result line, $HOME set or not.
C4_WrongArity ==
    \A p \in Procs : LET pr == proc[p] IN
        (pr.pc # "idle" /\ Len(pr.argv) # 3) =>
            /\ pr.pc = "done"
            /\ pr.out = [status |-> 0, printed |-> FALSE, line |-> NoLine,
                         err |-> <<Msg("usage", "")>>]
            /\ ~Attempted(pr) /\ ~pr.fetched /\ ~pr.readTried
            /\ file = pr.pre

\* five arguments and no $HOME: usage and status 0
C4_Witness ==
    \E p \in Procs : LET pr == proc[p] IN
        pr.pc = "done" /\ Len(pr.argv) = 5 /\ ~pr.home /\ pr.out.status = 0

\* the keys of the 'rates' object of the text, when it has one
HasRates(json) == from_str(json).ok /\ Index(from_str(json).v, "rates").ty = "obj"

RateKeys(json) == DOMAIN Index(from_str(json).v, "rates").m

\* C5: with a 'rates' object in the cache, an upper-cased source code that
\* is not a key is named as unrecognized (also when the destination is
\* missing too); with the source a key and the destination not, the
\* destination is named; the status is a failure and no result is printed.
C5_UnrecognizedCurrency ==
    \A p \in Procs : LET pr == proc[p] IN
        (pr.pc = "done" /\ pr.readOk /\ HasRates(pr.json)) =>
            LET src == UpperTable[pr.argv[1]]
                dst == UpperTable[pr.argv[2]]
                keys == RateKeys(pr.json)
            IN  /\ src \notin keys =>
                    Aborted(pr) /\ LastErr(pr) = Msg("not_recognized", src)
                /\ (src \in keys /\ dst \notin keys) =>
                    Aborted(pr) /\ LastErr(pr) = Msg("not_recognized", dst)

\* xyz abc 2.5 on a cache with rates: XYZ is named, not ABC
C5_Witness ==
    \E p \in Procs : LET pr == proc[p] IN
        /\ pr.pc = "done" /\ pr.argv = <<"xyz", "abc", "2.5">>
        /\ pr.readOk /\ HasRates(pr.json)
        /\ pr.out.status = 1 /\ LastErr(pr) = Msg("not_recognized", "XYZ")

\* the rate the text stores under code
RateIn(json, code) == AsF64(Index(from_str(json).v, "rates").m[code])

\* C6: on a successful run the printed value is (amount / rate_from) *
\* rate_to for the rates the cache stores under the upper-cased codes; with
\* rates USD 1.0 and EUR 0.9, USD EUR 100 prints USD 100.0000 = EUR 90.0000.
C6_ConversionResult ==
    \A p \in Procs : LET pr == proc[p] IN
        (pr.pc = "done" /\ pr.out.printed) =>
            LET src == UpperTable[pr.argv[1]]
                dst == UpperTable[pr.argv[2]]
                amt == ParseAmount(pr.argv[3])
            IN  /\ pr.out.status = 0
                /\ pr.out.line =
                    [from |-> src, amount |-> Fmt4(amt), to |-> dst,
                     converted |-> Fmt4(FMul(FDiv(amt, RateIn(pr.json, src)),
                                             RateIn(pr.json, dst)))]
                /\ (pr.json = DocA /\ pr.argv = <<"usd", "eur", "100">>) =>
                    pr.out.line =
                        [from |-> "USD", amount |-> [k |-> "num", v |-> 1000000],
                         to |-> "EUR", converted |-> [k |-> "num", v |-> 900000]]

\* usd eur 100 on the cache {"rates":{"USD":1.0,"EUR":0.9}} printed 90.0000
C6_Witness ==
    \E p \in Procs : LET pr == proc[p] IN
        /\ pr.pc = "done" /\ pr.out.printed /\ pr.json = DocA
        /\ pr.argv = <<"usd", "eur", "100">>
        /\ pr.out.line.converted = [k |-> "num", v |-> 900000]

C8_FreshUpToTTL ==
    \A p \in Procs : LET pr == proc[p] IN
        (Decided(pr) /\ Statable(pr) /\ AgeFound(pr) <= TTL) =>
            ~Attempted(pr) /\ ~pr.fetched

\* C8 amended: the cache is fresh, the fetch skipped and the file left
\* alone when its timestamp is less than 3600 seconds before now and not
\* later than now; at exactly 3600 seconds, and with a timestamp later than
\* now, a refresh is attempted.
C8_FreshBelowTTL ==
    \A p \in Procs : LET pr == proc[p] IN
        (Decided(pr) /\ Statable(pr)) =>
            /\ (0 <= AgeFound(pr) /\ AgeFound(pr) < TTL) =>
                ~Attempted(pr) /\ ~pr.fetched /\ file = pr.pre
            /\ (AgeFound(pr) = TTL \/ AgeFound(pr) < 0) => Attempted(pr)

\* a cache 3599 seconds old was used without a fetch
C8_Witness ==
    \E p \in Procs : LET pr == proc[p] IN
        /\ pr.pc = "done" /\ Statable(pr) /\ AgeFound(pr) = TTL - 1
        /\ ~pr.fetched /\ pr.out.printed

\* C9 as claimed: a write error leaves the file empty or partial with a
\* new modification time and that invocation aborts; every invocation
\* started less than 3600 seconds after it skips the fetch and aborts too;
\* the first one started 3600 seconds or more after it refreshes again.
C9_CorruptionAlwaysAborts ==
    \A p \in Procs : LET pr == proc[p] IN
        /\ (pr.pc = "done" /\ pr.rerr = "write") =>
            /\ file.exists /\ ProperPrefix(file.content, pr.body) /\ file.mtime >= pr.t
            /\ Aborted(pr)
        /\ (ref.valid /\ ref.refresh = "write_failed" /\ Decided(pr)) =>
            /\ (0 <= pr.t - ref.file.mtime /\ pr.t - ref.file.mtime < TTL) =>
                /\ ~Attempted(pr) /\ ~pr.fetched
                /\ pr.pc = "done" => Aborted(pr)
            /\ (pr.pre = ref.file /\ pr.t - ref.file.mtime >= TTL) => Attempted(pr)

\* C9 amended: as claimed, except that the invocations abort on the
\* content left by the failed write unless that content is already a
\* complete document, which it is when the write failed within the
\* body's trailing whitespace.
C9_CorruptionAbortsUnlessComplete ==
    \A p \in Procs : LET pr == proc[p] IN
        /\ (pr.pc = "done" /\ pr.rerr = "write") =>
            /\ file.exists /\ ProperPrefix(file.content, pr.body) /\ file.mtime >= pr.t
            /\ ~Balanced(file.content) => Aborted(pr) /\ LastErr(pr) = Msg("json_parse", "")
        /\ (ref.valid /\ ref.refresh = "write_failed" /\ Decided(pr)) =>
            /\ (0 <= pr.t - ref.file.mtime /\ pr.t - ref.file.mtime < TTL) =>
                /\ ~Attempted(pr) /\ ~pr.fetched /\ file = ref.file
                /\ (pr.pc = "done" /\ ~Balanced(ref.file.content)) =>
                    Aborted(pr) /\ LastErr(pr) = Msg("json_parse", "")
            /\ (pr.pre = ref.file /\ pr.t - ref.file.mtime >= TTL) => Attempted(pr)

\* after a write that failed half way, an invocation 3599 seconds later
\* skipped the fetch and failed on the partial document
C9_Witness ==
    \E p \in Procs : LET pr == proc[p] IN
        /\ ref.valid /\ ref.refresh = "write_failed" /\ ~Balanced(ref.file.content)
        /\ Len(ref.file.content) > 0
        /\ pr.pc = "done" /\ pr.t - ref.file.mtime = TTL - 1
        /\ ~pr.fetched /\ pr.json = ref.file.content /\ Aborted(pr)

\* C10: with two invocations at once, a reader that gets the cache file
\* as another invocation's refresh has left it so far, cut before the last
\* closing brace of the document, ends with the JSON parse failure and
\* prints no result.
C10_RacingReadFailsToParse ==
    \A p \in Procs : LET pr == proc[p] IN
        (pr.pc = "done" /\ pr.readOk /\ ~Balanced(pr.json)) =>
            Aborted(pr) /\ LastErr(pr) = Msg("json_parse", "")

\* one invocation's refresh replaced a valid document by a valid one, and
\* the other, which did not refresh, read the file in between and failed
\* to parse it
C10_Witness ==
    \E p \in Procs, q \in Procs : LET pr == proc[p] qr == proc[q] IN
        /\ p # q
        /\ from_str(qr.pre.content).ok /\ qr.rerr = "none" /\ file.content = qr.body
        /\ from_str(file.content).ok
        /\ pr.pc = "done" /\ ~Attempted(pr) /\ pr.readOk
        /\ ProperPrefix(pr.json, qr.body) /\ ~from_str(pr.json).ok
        /\ pr.out.status = 1 /\ LastErr(pr) = Msg("json_parse", "")

====
